---- MODULE Spec2Model ----
(***************************************************************************)
(* Drag-and-drop coordination of ss-fusion: the drag coordinator           *)
(* (utils/drag.ts) and the DropZone molecule (molecules/DropZone.ts).      *)
(*                                                                         *)
(* An optional TypeScript value (T | undefined) is a sequence of length    *)
(* at most one: << >> is undefined, <<v>> is the value v.                  *)
(*                                                                         *)
(* BindableEvent.Fire() runs the connected listeners before it returns     *)
(* (the engine's immediate signal behaviour).  The order in which the      *)
(* listeners of one Fire() run is the engine's business; no modelled       *)
(* listener calls back into the coordinator, so every listener of one      *)
(* Fire() reads the same state, and one Fire() is recorded as one entry    *)
(* holding the set of listeners it ran.                                    *)
(***************************************************************************)
EXTENDS Integers, Sequences, FiniteSets, TLC

VARIABLES
  state,      \* drag.ts: the Value<DragState> cell
  subs,       \* the listeners connected to the two BindableEvents
  handlers,   \* the callers of onChanged / onEnded and the connection each got
  zones,      \* the DropZone instances (frame geometry, props, closure locals)
  fired,      \* the Fire() calls made by the most recent operation, in order
  lastCall,   \* the lifecycle call that has just returned, with its arguments
  lastLifecycle,  \* the most recent of startDrag / update / endDrag
  gesture,    \* Draggable / DragHandle: where each UIDragDetector is in its gesture
  userCalls,  \* the props callbacks the most recent detector event invoked, in order
  button,     \* CooldownButton: props, reactive values and running threads
  buttonLog,  \* the most recent event of the CooldownButton and the props callbacks it invoked
  tabGroup,   \* TabGroup: its tab list and the shared Value<string> active
  tabLog      \* the most recent event of the TabGroup and its argument

vars == <<state, subs, handlers, zones, fired, lastCall, lastLifecycle, gesture, userCalls,
          button, buttonLog, tabGroup, tabLog>>


-----------------------------------------------------------------------------
(* Bounds and value universes *)

MaxCoord == 2
Coords == 0 .. MaxCoord

Undefined == << >>
Some(v) == <<v>>

Vector2 == [X : Coords, Y : Coords]

\* DragPayload {type, data?, source?}
DragPayloads ==
  { [type |-> "item",  data |-> "gem",  source |-> Some("nodeA")],
    [type |-> "other", data |-> "coin", source |-> Undefined] }

\* the source argument of startDrag: omitted, or a node
SourceArgs == {Undefined, Some("nodeB")}

\* the callers of onChanged and of onEnded (besides the zones)
ChangedHandlers == {"h1"}
EndedHandlers == {"h2"}
Handlers == ChangedHandlers \cup EndedHandlers
\* the DropZones a screen can hold; the screens with one zone mount FirstZone
Zones == {"z1", "z2"}
FirstZone == {"z1"}

\* The wrappers on screen: two Draggables with a payload, one without, and a
\* DragHandle.  Each wraps its own node, which a Draggable passes as target.
PayloadDraggables == {"dragA", "dragB"}
PlainDraggables == {"dragN"}
DragHandles == {"handle"}
Draggables == PayloadDraggables \cup PlainDraggables
Detectors == Draggables \cup DragHandles

\* DropZoneProps.accepts: omitted, a list of type tags, or a predicate
\* (a predicate is the set of payloads it returns true for)
AcceptsOptions ==
  { [kind |-> "omitted",  list |-> {},       fn |-> {}],
    [kind |-> "list",     list |-> {"item"}, fn |-> {}],
    [kind |-> "function", list |-> {},       fn |-> {p \in DragPayloads : p.data = "coin"}] }

\* the screen rectangles a zone's frame can have (AbsolutePosition, AbsoluteSize)
Rects ==
  { [absPos |-> [X |-> 1, Y |-> 1], absSize |-> [X |-> 1, Y |-> 1]],
    [absPos |-> [X |-> 0, Y |-> 0], absSize |-> [X |-> 1, Y |-> 0]] }

\* the rectangles of a screen whose zones overlap: they share the point (1,1)
OverlapRects ==
  { [absPos |-> [X |-> 1, Y |-> 1], absSize |-> [X |-> 1, Y |-> 1]],
    [absPos |-> [X |-> 0, Y |-> 0], absSize |-> [X |-> 1, Y |-> 1]] }

-----------------------------------------------------------------------------
(* utils/drag.ts *)

\* const state = Value<DragState>({ active: false })
InitialState ==
  [active |-> FALSE, position |-> Undefined, payload |-> Undefined, source |-> Undefined]

\* getState()
getState == state

\* lastCall after an operation that is no lifecycle call
NoCall ==
  [op |-> "none", payload |-> Undefined, position |-> Undefined,
   source |-> Undefined, wasActive |-> FALSE]

Call(op) == [NoCall EXCEPT !.op = op, !.wasActive = state.active]

-----------------------------------------------------------------------------
(* molecules/DropZone.ts *)

NoZone ==
  [status |-> "none", accepts |-> CHOOSE a \in AcceptsOptions : a.kind = "omitted",
   absPos |-> [X |-> 0, Y |-> 0], absSize |-> [X |-> 0, Y |-> 0],
   inside |-> FALSE, lastPayload |-> Undefined]

acceptsPayload(accepts, payload) ==
  IF payload = Undefined THEN FALSE
  ELSE IF accepts.kind = "omitted" THEN TRUE
  ELSE IF accepts.kind = "function" THEN payload[1] \in accepts.fn
  ELSE payload[1].type \in accepts.list

\* mutant: the right and bottom edges are exclusive
Within_ExclusiveFarEdges(zr, p) ==
  /\ p.X >= zr.absPos.X
  /\ p.X < zr.absPos.X + zr.absSize.X
  /\ p.Y >= zr.absPos.Y
  /\ p.Y < zr.absPos.Y + zr.absSize.Y

\* line 49: the inclusive point-in-rectangle test on the frame's live bounds
Within(zr, p) ==
  /\ p.X >= zr.absPos.X
  /\ p.X <= zr.absPos.X + zr.absSize.X
  /\ p.Y >= zr.absPos.Y
  /\ p.Y <= zr.absPos.Y + zr.absSize.Y

Callback(z, name, payload) == [zone |-> z, cb |-> name, payload |-> payload]

\* mutant: level-triggered, the "!inside" test of the enter branch is missing
ZoneOnChanged_LevelTriggered(z, zr, s) ==
  IF ~s.active \/ s.position = Undefined
  THEN [zone |-> [zr EXCEPT !.inside = FALSE], cbs |-> {}]
  ELSE LET p  == s.position[1]
           ok == Within(zr, p) /\ acceptsPayload(zr.accepts, s.payload)
       IN IF ok
          THEN [zone |-> [zr EXCEPT !.inside = TRUE, !.lastPayload = s.payload],
                cbs  |-> IF s.payload # Undefined
                         THEN {Callback(z, "onEnter", s.payload[1])} ELSE {}]
          ELSE IF ~ok /\ zr.inside
          THEN [zone |-> [zr EXCEPT !.inside = FALSE, !.lastPayload = Undefined],
                cbs  |-> IF zr.lastPayload # Undefined
                         THEN {Callback(z, "onLeave", zr.lastPayload[1])} ELSE {}]
          ELSE [zone |-> zr, cbs |-> {}]

\* mutant: eligibility is the hit test alone, acceptsPayload is not consulted
ZoneOnChanged_IgnoresAccepts(z, zr, s) ==
  IF ~s.active \/ s.position = Undefined
  THEN [zone |-> [zr EXCEPT !.inside = FALSE], cbs |-> {}]
  ELSE LET p  == s.position[1]
           ok == Within(zr, p)
       IN IF ok /\ ~zr.inside
          THEN [zone |-> [zr EXCEPT !.inside = TRUE, !.lastPayload = s.payload],
                cbs  |-> IF s.payload # Undefined
                         THEN {Callback(z, "onEnter", s.payload[1])} ELSE {}]
          ELSE IF ~ok /\ zr.inside
          THEN [zone |-> [zr EXCEPT !.inside = FALSE, !.lastPayload = Undefined],
                cbs  |-> IF zr.lastPayload # Undefined
                         THEN {Callback(z, "onLeave", zr.lastPayload[1])} ELSE {}]
          ELSE [zone |-> zr, cbs |-> {}]

\* the listener passed to Drag.onChanged: the zone's new closure state and
\* the props callbacks it invoked
ZoneOnChanged(z, zr, s) ==
  IF ~s.active \/ s.position = Undefined
  THEN [zone |-> [zr EXCEPT !.inside = FALSE], cbs |-> {}]
  ELSE LET p  == s.position[1]
           ok == Within(zr, p) /\ acceptsPayload(zr.accepts, s.payload)
       IN IF ok /\ ~zr.inside
          THEN [zone |-> [zr EXCEPT !.inside = TRUE, !.lastPayload = s.payload],
                cbs  |-> IF s.payload # Undefined
                         THEN {Callback(z, "onEnter", s.payload[1])} ELSE {}]
          ELSE IF ~ok /\ zr.inside
          THEN [zone |-> [zr EXCEPT !.inside = FALSE, !.lastPayload = Undefined],
                cbs  |-> IF zr.lastPayload # Undefined
                         THEN {Callback(z, "onLeave", zr.lastPayload[1])} ELSE {}]
          ELSE [zone |-> zr, cbs |-> {}]

\* mutant: the closure state is cleared before the inside test
ZoneOnEnded_ClearsFirst(z, zr, s) ==
  [zone |-> [zr EXCEPT !.inside = FALSE, !.lastPayload = Undefined], cbs |-> {}]

\* mutant: onDrop is delivered but the closure state is left as it was
ZoneOnEnded_KeepsCache(z, zr, s) ==
  [zone |-> zr,
   cbs  |-> IF zr.inside /\ zr.lastPayload # Undefined
            THEN {Callback(z, "onDrop", zr.lastPayload[1])} ELSE {}]

\* mutant: the end listener looks at the frame and drops only on a zone
\* with an area
ZoneOnEnded_RequiresArea(z, zr, s) ==
  [zone |-> [zr EXCEPT !.inside = FALSE, !.lastPayload = Undefined],
   cbs  |-> IF zr.inside /\ zr.lastPayload # Undefined
               /\ zr.absSize.X > 0 /\ zr.absSize.Y > 0
            THEN {Callback(z, "onDrop", zr.lastPayload[1])} ELSE {}]

\* the listener passed to Drag.onEnded
ZoneOnEnded(z, zr, s) ==
  [zone |-> [zr EXCEPT !.inside = FALSE, !.lastPayload = Undefined],
   cbs  |-> IF zr.inside /\ zr.lastPayload # Undefined
            THEN {Callback(z, "onDrop", zr.lastPayload[1])} ELSE {}]

\* the listener passed to Drag.onEnded when props.onDrop raises: the error
\* ends the listener's thread inside the call, so the two assignments after
\* it never run; the engine reports the error and carries on
ZoneOnEndedRaises(z, zr, s) ==
  [zone |-> zr,
   cbs  |-> {Callback(z, "onDrop", zr.lastPayload[1]),
             Callback(z, "raised", zr.lastPayload[1])}]

-----------------------------------------------------------------------------
(* BindableEvent.Fire(): every connected listener runs with state.get() *)

ZoneListener(chan, z, zr, s) ==
  IF chan = "ended" THEN ZoneOnEnded(z, zr, s) ELSE ZoneOnChanged(z, zr, s)

\* the zones after the listeners of one Fire() on chan have run
ZonesAfterFire(chan, zs, s) ==
  [z \in Zones |-> IF z \in subs[chan] THEN ZoneListener(chan, z, zs[z], s).zone ELSE zs[z]]

\* mutant: delivery is exclusive, only one of the zones is called
FireEntry_OneZoneOnly(chan, zs, s) ==
  [chan |-> chan, to |-> subs[chan], seen |-> s,
   cbs  |-> LET hit == {z \in Zones \cap subs[chan] : ZoneListener(chan, z, zs[z], s).cbs # {}}
            IN IF hit = {} THEN {}
               ELSE ZoneListener(chan, CHOOSE z \in hit : TRUE, zs[CHOOSE z \in hit : TRUE], s).cbs]

\* the record of one Fire() on chan: who ran, what they read, what zones called
FireEntry(chan, zs, s) ==
  [chan |-> chan, to |-> subs[chan], seen |-> s,
   cbs  |-> UNION {ZoneListener(chan, z, zs[z], s).cbs : z \in Zones \cap subs[chan]}]

-----------------------------------------------------------------------------
(* CooldownButton: no instance has been constructed *)

NoButton ==
  [impl |-> "none", cooldown |-> 0, cooldownRemaining |-> 0, isDisabled |-> FALSE,
   polling |-> 0, pending |-> 0]

\* TabGroup: no instance has been constructed
NoTabGroup == [status |-> "none", tabs |-> << >>, active |-> "none"]

-----------------------------------------------------------------------------
(* Operations *)

Init ==
  /\ state = InitialState
  /\ subs = [changed |-> {}, ended |-> {}]
  /\ handlers = [h \in Handlers |-> [registered |-> "none", conn |-> "none", disconnected |-> FALSE]]
  /\ zones = [z \in Zones |-> NoZone]
  /\ fired = << >>
  /\ lastCall = NoCall
  /\ lastLifecycle = [op |-> "none", wasActive |-> FALSE]
  /\ gesture = [d \in Detectors |-> "idle"]
  /\ userCalls = << >>
  /\ button = NoButton
  /\ buttonLog = [event |-> "none", calls |-> << >>]
  /\ tabGroup = NoTabGroup
  /\ tabLog = [event |-> "none", arg |-> "none"]

\* mutant: the connection returned is not the one the handler runs on
onChanged_WrongConnection(h) ==
  /\ handlers[h].registered = "none"
  /\ subs' = [subs EXCEPT !.changed = @ \cup {h}]
  /\ handlers' = [handlers EXCEPT ![h] = [registered |-> "changed", conn |-> "ended", disconnected |-> FALSE]]
  /\ fired' = << >>
  /\ lastCall' = NoCall
  /\ UNCHANGED <<state, zones, lastLifecycle>>

\* onChanged(handler): connect to changed.Event, return the connection
onChanged(h) ==
  /\ handlers[h].registered = "none"
  /\ subs' = [subs EXCEPT !.changed = @ \cup {h}]
  /\ handlers' = [handlers EXCEPT ![h] = [registered |-> "changed", conn |-> "changed", disconnected |-> FALSE]]
  /\ fired' = << >>
  /\ lastCall' = NoCall
  /\ UNCHANGED <<state, zones, lastLifecycle>>

\* onEnded(handler): connect to ended.Event, return the connection
onEnded(h) ==
  /\ handlers[h].registered = "none"
  /\ subs' = [subs EXCEPT !.ended = @ \cup {h}]
  /\ handlers' = [handlers EXCEPT ![h] = [registered |-> "ended", conn |-> "ended", disconnected |-> FALSE]]
  /\ fired' = << >>
  /\ lastCall' = NoCall
  /\ UNCHANGED <<state, zones, lastLifecycle>>

\* RBXScriptConnection.Disconnect() on the connection a caller was given
Disconnect(h) ==
  /\ handlers[h].conn # "none"
  /\ ~handlers[h].disconnected
  /\ subs' = [subs EXCEPT ![handlers[h].conn] = @ \ {h}]
  /\ handlers' = [handlers EXCEPT ![h].disconnected = TRUE]
  /\ fired' = << >>
  /\ lastCall' = NoCall
  /\ UNCHANGED <<state, zones, lastLifecycle>>

\* state.set(s) followed by one Fire() per channel of chans, in that order
RECURSIVE FireSeq(_, _, _)
FireSeq(chans, zs, s) ==
  IF chans = << >> THEN << >>
  ELSE << FireEntry(Head(chans), zs, s) >>
         \o FireSeq(Tail(chans), ZonesAfterFire(Head(chans), zs, s), s)

RECURSIVE ZonesAfterSeq(_, _, _)
ZonesAfterSeq(chans, zs, s) ==
  IF chans = << >> THEN zs
  ELSE ZonesAfterSeq(Tail(chans), ZonesAfterFire(Head(chans), zs, s), s)

SetAndFire(s, chans) ==
  /\ state' = s
  /\ fired' = FireSeq(chans, zones, s)
  /\ zones' = ZonesAfterSeq(chans, zones, s)

\* the early return of update / endDrag
Return ==
  /\ fired' = << >>
  /\ UNCHANGED <<state, zones>>

\* bookkeeping of a lifecycle call
Returned(call) ==
  /\ lastCall' = call
  /\ lastLifecycle' = [op |-> call.op, wasActive |-> state.active]
  /\ UNCHANGED <<subs, handlers>>

\* mutant: payload.source takes precedence over the source argument
startDrag_PayloadSourceFirst(payload, position, source) ==
  /\ SetAndFire([active |-> TRUE, payload |-> Some(payload), position |-> Some(position),
                 source |-> IF payload.source # Undefined THEN payload.source ELSE source],
                <<"changed">>)
  /\ Returned([Call("startDrag") EXCEPT
                 !.payload = Some(payload), !.position = Some(position), !.source = source])

\* mutant: a guard rejects startDrag while a session is active
startDrag_IgnoredWhileActive(payload, position, source) ==
  /\ IF state.active
     THEN Return
     ELSE SetAndFire([active |-> TRUE, payload |-> Some(payload), position |-> Some(position),
                      source |-> IF source # Undefined THEN source ELSE payload.source],
                     <<"changed">>)
  /\ Returned([Call("startDrag") EXCEPT
                 !.payload = Some(payload), !.position = Some(position), !.source = source])

startDrag(payload, position, source) ==
  /\ SetAndFire([active |-> TRUE, payload |-> Some(payload), position |-> Some(position),
                 source |-> IF source # Undefined THEN source ELSE payload.source],
                <<"changed">>)
  /\ Returned([Call("startDrag") EXCEPT
                 !.payload = Some(payload), !.position = Some(position), !.source = source])

\* mutant: the guard on curr.active is missing
update_NoGuard(position) ==
  /\ SetAndFire([state EXCEPT !.position = Some(position)], <<"changed">>)
  /\ Returned([Call("update") EXCEPT !.position = Some(position)])

\* mutant: the new state is built afresh instead of spread from curr
update_DropsPayload(position) ==
  /\ IF ~state.active
     THEN Return
     ELSE SetAndFire([active |-> TRUE, position |-> Some(position),
                      payload |-> Undefined, source |-> Undefined], <<"changed">>)
  /\ Returned([Call("update") EXCEPT !.position = Some(position)])

update(position) ==
  LET curr == state
  IN /\ IF ~curr.active
        THEN Return
        ELSE SetAndFire([curr EXCEPT !.position = Some(position)], <<"changed">>)
     /\ Returned([Call("update") EXCEPT !.position = Some(position)])

\* mutant: the guard is inverted
endDrag_GuardInverted ==
  /\ IF state.active
     THEN Return
     ELSE SetAndFire(InitialState, <<"ended", "changed">>)
  /\ Returned(Call("endDrag"))

\* mutant: the guard on curr.active is missing
endDrag_NoGuard ==
  /\ SetAndFire(InitialState, <<"ended", "changed">>)
  /\ Returned(Call("endDrag"))

\* mutant: changed.Fire() before ended.Fire()
endDrag_ChangedFirst ==
  /\ IF ~state.active
     THEN Return
     ELSE SetAndFire(InitialState, <<"changed", "ended">>)
  /\ Returned(Call("endDrag"))

\* mutant: only the active flag is reset
endDrag_KeepsFields ==
  /\ IF ~state.active
     THEN Return
     ELSE SetAndFire([state EXCEPT !.active = FALSE], <<"ended", "changed">>)
  /\ Returned(Call("endDrag"))

\* mutant: the events are fired before the state cell is cleared
endDrag_FiresBeforeSet ==
  /\ IF ~state.active
     THEN Return
     ELSE /\ state' = InitialState
          /\ fired' = FireSeq(<<"ended", "changed">>, zones, state)
          /\ zones' = ZonesAfterSeq(<<"ended", "changed">>, zones, state)
  /\ Returned(Call("endDrag"))

endDrag ==
  LET curr == state
  IN /\ IF ~curr.active
        THEN Return
        ELSE SetAndFire([active |-> FALSE, position |-> Undefined,
                         payload |-> Undefined, source |-> Undefined],
                        <<"ended", "changed">>)
     /\ Returned(Call("endDrag"))

\* DropZone(props): build the frame, subscribe to both channels
\* endDrag() while the onDrop callback of every zone that delivers a drop
\* raises: an error in a listener does not stop Fire() or its caller, so
\* changed.Fire() still follows ended.Fire()
endDragWhileOnDropRaises ==
  LET curr == state
      s == [active |-> FALSE, position |-> Undefined,
            payload |-> Undefined, source |-> Undefined]
      raising == {z \in Zones \cap subs["ended"] :
                    zones[z].inside /\ zones[z].lastPayload # Undefined}
      ended(z) == IF z \in raising THEN ZoneOnEndedRaises(z, zones[z], s)
                  ELSE ZoneOnEnded(z, zones[z], s)
      zs == [z \in Zones |-> IF z \in subs["ended"] THEN ended(z).zone ELSE zones[z]]
  IN /\ curr.active
     /\ raising # {}
     /\ state' = s
     /\ fired' = << [chan |-> "ended", to |-> subs["ended"], seen |-> s,
                     cbs  |-> UNION {ended(z).cbs : z \in Zones \cap subs["ended"]}],
                    FireEntry("changed", zs, s) >>
     /\ zones' = ZonesAfterFire("changed", zs, s)
     /\ Returned(Call("endDrag"))

DropZone(z, accepts, rect) ==
  /\ zones[z].status = "none"
  /\ zones' = [zones EXCEPT ![z] =
       [status |-> "live", accepts |-> accepts, absPos |-> rect.absPos,
        absSize |-> rect.absSize, inside |-> FALSE, lastPayload |-> Undefined]]
  /\ subs' = [changed |-> subs.changed \cup {z}, ended |-> subs.ended \cup {z}]
  /\ fired' = << >>
  /\ lastCall' = NoCall
  /\ UNCHANGED <<state, handlers, lastLifecycle>>

\* mutant: endConn is not disconnected
Unmount_KeepsEndConn(z) ==
  /\ zones[z].status = "live"
  /\ zones' = [zones EXCEPT ![z].status = "unmounted"]
  /\ subs' = [changed |-> subs.changed \ {z}, ended |-> subs.ended]
  /\ fired' = << >>
  /\ lastCall' = NoCall
  /\ UNCHANGED <<state, handlers, lastLifecycle>>

\* frame.AncestryChanged with no parent: disconnect both connections
Unmount(z) ==
  /\ zones[z].status = "live"
  /\ zones' = [zones EXCEPT ![z].status = "unmounted"]
  /\ subs' = [changed |-> subs.changed \ {z}, ended |-> subs.ended \ {z}]
  /\ fired' = << >>
  /\ lastCall' = NoCall
  /\ UNCHANGED <<state, handlers, lastLifecycle>>

\* the engine lays the frame out again: AbsolutePosition / AbsoluteSize change
Layout(z, rect) ==
  /\ zones[z].status = "live"
  /\ <<rect.absPos, rect.absSize>> # <<zones[z].absPos, zones[z].absSize>>
  /\ zones' = [zones EXCEPT ![z].absPos = rect.absPos, ![z].absSize = rect.absSize]
  /\ fired' = << >>
  /\ lastCall' = NoCall
  /\ UNCHANGED <<state, subs, handlers, lastLifecycle>>

\* a step made by other client code: no detector handler runs
NoDetectorEvent ==
  /\ userCalls' = << >>
  /\ UNCHANGED gesture

\* no event of a CooldownButton
NoButtonEvent == UNCHANGED <<button, buttonLog>>

\* no event of a TabGroup
NoTabEvent == UNCHANGED <<tabGroup, tabLog>>

Next ==
  \/ \E h \in ChangedHandlers : onChanged(h) /\ NoDetectorEvent /\ NoButtonEvent /\ NoTabEvent
  \/ \E h \in EndedHandlers : onEnded(h) /\ NoDetectorEvent /\ NoButtonEvent /\ NoTabEvent
  \/ \E h \in Handlers : Disconnect(h) /\ NoDetectorEvent /\ NoButtonEvent /\ NoTabEvent
  \/ \E p \in DragPayloads, pos \in Vector2, src \in SourceArgs :
       startDrag(p, pos, src) /\ NoDetectorEvent /\ NoButtonEvent /\ NoTabEvent
  \/ \E pos \in Vector2 : update(pos) /\ NoDetectorEvent /\ NoButtonEvent /\ NoTabEvent
  \/ endDrag /\ NoDetectorEvent /\ NoButtonEvent /\ NoTabEvent
  \/ \E z \in FirstZone, a \in AcceptsOptions, r \in Rects :
       DropZone(z, a, r) /\ NoDetectorEvent /\ NoButtonEvent /\ NoTabEvent
  \/ \E z \in FirstZone : Unmount(z) /\ NoDetectorEvent /\ NoButtonEvent /\ NoTabEvent
  \/ \E z \in FirstZone, r \in Rects : Layout(z, r) /\ NoDetectorEvent /\ NoButtonEvent /\ NoTabEvent

Spec == Init /\ [][Next]_vars

-----------------------------------------------------------------------------
(* Draggable (molecules/Draggable.ts) and DragHandle: the handlers connected *)
(* to a UIDragDetector.  The detector reports DragStart, then DragContinue   *)
(* any number of times, then DragEnd; every props callback is provided.      *)

\* props.payload of the two Draggables that have one
PayloadOf(d) == IF d = "dragA"
                THEN [type |-> "item", data |-> "gem", source |-> Some("nodeA")]
                ELSE [type |-> "other", data |-> "coin", source |-> Undefined]

\* the node the detector is parented to, passed to startDrag as source
TargetOf(d) == IF d = "dragA" THEN "nodeB" ELSE "nodeA"

\* one call of a props callback: its argument, what Drag.getState() returns
\* while it runs, and how many Fire() calls of this event preceded it
UserCall(d, cb, arg, s, n) ==
  [detector |-> d, cb |-> cb, arg |-> arg, seen |-> s, firedBefore |-> n]

\* a handler of a wrapper without payload: only the props callback runs;
\* DragHandle calls onStart and onEnd without an argument
CallbackOnly(d, cb, pos) ==
  /\ userCalls' = << UserCall(d, cb, IF cb \in {"onStart", "onEnd"} THEN Undefined ELSE Some(pos),
                              state, 0) >>
  /\ fired' = << >>
  /\ lastCall' = NoCall
  /\ UNCHANGED <<state, subs, handlers, zones, lastLifecycle>>

\* mutant: the payload test is missing, a default payload is published
DragStart_NoPayloadGuard(d, pos) ==
  /\ gesture[d] = "idle"
  /\ gesture' = [gesture EXCEPT ![d] = "dragging"]
  /\ startDrag(PayloadOf(d), pos, Some(TargetOf(d)))
  /\ userCalls' = << UserCall(d, IF d \in DragHandles THEN "onStart" ELSE "onDragStart",
                               Some(pos), state', Len(fired')) >>

DragStart(d, pos) ==
  /\ gesture[d] = "idle"
  /\ gesture' = [gesture EXCEPT ![d] = "dragging"]
  /\ IF d \in PayloadDraggables
     THEN /\ startDrag(PayloadOf(d), pos, Some(TargetOf(d)))
          /\ userCalls' = << UserCall(d, "onDragStart", Some(pos), state', Len(fired')) >>
     ELSE CallbackOnly(d, IF d \in DragHandles THEN "onStart" ELSE "onDragStart", pos)

DragContinue(d, pos) ==
  /\ gesture[d] = "dragging"
  /\ UNCHANGED gesture
  /\ IF d \in PayloadDraggables
     THEN /\ update(pos)
          /\ userCalls' = << UserCall(d, "onDrag", Some(pos), state', Len(fired')) >>
     ELSE CallbackOnly(d, IF d \in DragHandles THEN "onDelta" ELSE "onDrag", pos)

\* mutant: props.onDragEnd runs before Drag.endDrag()
DragEnd_CallbackFirst(d, pos) ==
  /\ gesture[d] = "dragging"
  /\ gesture' = [gesture EXCEPT ![d] = "idle"]
  /\ IF d \in PayloadDraggables
     THEN /\ endDrag
          /\ userCalls' = << UserCall(d, "onDragEnd", Some(pos), state, 0) >>
     ELSE CallbackOnly(d, IF d \in DragHandles THEN "onEnd" ELSE "onDragEnd", pos)

DragEnd(d, pos) ==
  /\ gesture[d] = "dragging"
  /\ gesture' = [gesture EXCEPT ![d] = "idle"]
  /\ IF d \in PayloadDraggables
     THEN /\ endDrag
          /\ userCalls' = << UserCall(d, "onDragEnd", Some(pos), state', Len(fired')) >>
     ELSE CallbackOnly(d, IF d \in DragHandles THEN "onEnd" ELSE "onDragEnd", pos)

\* the wrapper is destroyed: Destroy() disconnects every connection of the
\* detector, so none of the three handlers runs for it again; Draggable
\* connects nothing to Destroying or AncestryChanged
Destroy(d) ==
  /\ gesture[d] # "destroyed"
  /\ gesture' = [gesture EXCEPT ![d] = "destroyed"]
  /\ userCalls' = << >>
  /\ fired' = << >>
  /\ lastCall' = NoCall
  /\ UNCHANGED <<state, subs, handlers, zones, lastLifecycle>>

\* a screen with the two payload-carrying Draggables and a DropZone
NextDraggable ==
  \/ \E d \in PayloadDraggables, pos \in Vector2 : DragStart(d, pos) /\ NoButtonEvent /\ NoTabEvent
  \/ \E d \in PayloadDraggables, pos \in Vector2 : DragContinue(d, pos) /\ NoButtonEvent /\ NoTabEvent
  \/ \E d \in PayloadDraggables, pos \in Vector2 : DragEnd(d, pos) /\ NoButtonEvent /\ NoTabEvent
  \/ \E d \in PayloadDraggables : Destroy(d) /\ NoButtonEvent /\ NoTabEvent
  \/ \E z \in FirstZone, a \in AcceptsOptions, r \in Rects :
       DropZone(z, a, r) /\ NoDetectorEvent /\ NoButtonEvent /\ NoTabEvent

SpecDraggable == Init /\ [][NextDraggable]_vars

\* the same screen with zones whose frames move or resize
NextDraggableLayout ==
  \/ NextDraggable
  \/ \E z \in FirstZone, r \in Rects :
       Layout(z, r) /\ NoDetectorEvent /\ NoButtonEvent /\ NoTabEvent

SpecDraggableLayout == Init /\ [][NextDraggableLayout]_vars

\* a screen with one payload-carrying Draggable, a Draggable without payload,
\* a DragHandle and a DropZone
MixedDetectors == {"dragA"} \cup PlainDraggables \cup DragHandles

NextMixed ==
  \/ \E d \in MixedDetectors, pos \in Vector2 : DragStart(d, pos) /\ NoButtonEvent /\ NoTabEvent
  \/ \E d \in MixedDetectors, pos \in Vector2 : DragContinue(d, pos) /\ NoButtonEvent /\ NoTabEvent
  \/ \E d \in MixedDetectors, pos \in Vector2 : DragEnd(d, pos) /\ NoButtonEvent /\ NoTabEvent
  \/ \E z \in FirstZone, a \in AcceptsOptions, r \in Rects :
       DropZone(z, a, r) /\ NoDetectorEvent /\ NoButtonEvent /\ NoTabEvent

SpecMixed == Init /\ [][NextMixed]_vars

\* the same program with DropZone callbacks that may raise
NextRaise ==
  \/ Next
  \/ endDragWhileOnDropRaises /\ NoDetectorEvent /\ NoButtonEvent /\ NoTabEvent

SpecRaise == Init /\ [][NextRaise]_vars

\* a screen with two DropZones whose frames may overlap, driven through the
\* coordinator
NextOverlap ==
  \/ \E p \in DragPayloads, pos \in Vector2 :
       startDrag(p, pos, Undefined) /\ NoDetectorEvent /\ NoButtonEvent /\ NoTabEvent
  \/ \E pos \in Vector2 : update(pos) /\ NoDetectorEvent /\ NoButtonEvent /\ NoTabEvent
  \/ endDrag /\ NoDetectorEvent /\ NoButtonEvent /\ NoTabEvent
  \/ \E z \in Zones, a \in AcceptsOptions, r \in OverlapRects :
       DropZone(z, a, r) /\ NoDetectorEvent /\ NoButtonEvent /\ NoTabEvent

SpecOverlap == Init /\ [][NextOverlap]_vars

-----------------------------------------------------------------------------
(* CooldownButton, in its two implementations: "molecule"                    *)
(* (molecules/CooldownButton.ts, built on the Button atom) and "enhanced"    *)
(* (the themed CooldownButton.ts with canClick and onCooldownComplete).      *)
(*                                                                           *)
(* Time is counted in units of 0.05 s, so that props.cooldown can be a       *)
(* multiple of the polling interval or not; arithmetic is exact, where the   *)
(* program's doubles can leave a residue of rounding above 0 that costs one  *)
(* more round of the loop.  A thread is either running (inside one action)   *)
(* or suspended: a polling task in task.wait(interval), an Activated handler *)
(* inside a props.onClick that yields.                                       *)

interval == 2
MaxCooldown == 5
MaxPending == 1
MaxTasks == 2

Impls == {"molecule", "enhanced"}
Cooldowns == -1 .. MaxCooldown

\* Computed isOnCooldown: cooldownProgress.get() > 0.  The molecule divides
\* by props.cooldown unguarded: 0 / 0 is NaN, and NaN > 0 is false.
isOnCooldown(b) ==
  IF b.impl = "enhanced"
  THEN b.cooldown > 0 /\ b.cooldownRemaining > 0
  ELSE \/ b.cooldown > 0 /\ b.cooldownRemaining > 0
       \/ b.cooldown < 0 /\ b.cooldownRemaining < 0

\* the test the click handler makes (canClick of the enhanced button)
canClick(b) ==
  IF b.impl = "enhanced" THEN ~isOnCooldown(b) /\ ~b.isDisabled
  ELSE ~isOnCooldown(b)

\* the props callbacks an accepted click invokes before startCooldown()
ClickCalls(b) ==
  IF b.impl = "enhanced" THEN <<"onClick", "OnActivated">> ELSE <<"onClick">>

\* startCooldown(): set the countdown and spawn the polling task, which runs
\* up to its first task.wait, or to its end when the loop test fails at once
startCooldown(b) ==
  IF b.impl = "enhanced" /\ b.cooldown <= 0 THEN b
  ELSE [b EXCEPT !.cooldownRemaining = b.cooldown,
                 !.polling = IF b.cooldown > 0 THEN @ + 1 ELSE @]

\* the component function is called with its props; only the enhanced
\* button has an initiallyDisabled prop
CooldownButton(impl, cooldown, initiallyDisabled) ==
  /\ button.impl = "none"
  /\ button' = [NoButton EXCEPT !.impl = impl, !.cooldown = cooldown,
                                !.isDisabled = (impl = "enhanced" /\ initiallyDisabled)]
  /\ buttonLog' = [event |-> "created", calls |-> << >>]

\* mutant: the handler does not test the cooldown
Activated_NoCooldownTest(yields) ==
  /\ button.impl # "none"
  /\ ~yields
  /\ button.polling < MaxTasks
  /\ button' = startCooldown(button)
  /\ buttonLog' = [event |-> "Activated", calls |-> ClickCalls(button)]

\* the Activated event of the button; yields tells whether props.onClick
\* yields before it returns
Activated(yields) ==
  /\ button.impl # "none"
  /\ IF ~canClick(button)
     THEN /\ ~yields
          /\ UNCHANGED button
          /\ buttonLog' = [event |-> "Activated", calls |-> << >>]
     ELSE IF yields
     THEN /\ button.pending < MaxPending
          /\ button' = [button EXCEPT !.pending = @ + 1]
          /\ buttonLog' = [event |-> "Activated", calls |-> <<"onClick">>]
     ELSE /\ button.polling < MaxTasks
          /\ button' = startCooldown(button)
          /\ buttonLog' = [event |-> "Activated", calls |-> ClickCalls(button)]

\* a props.onClick that yielded returns: the rest of the handler runs
Resumed ==
  /\ button.pending > 0
  /\ button.polling < MaxTasks
  /\ button' = startCooldown([button EXCEPT !.pending = @ - 1])
  /\ buttonLog' = [event |-> "Resumed", calls |-> Tail(ClickCalls(button))]

\* mutant: the loop waits but does not decrement
Tick_NoDecrement ==
  /\ button.polling > 0
  /\ UNCHANGED button
  /\ buttonLog' = [event |-> "Tick", calls |-> << >>]

\* task.wait(interval) of one polling task returns: one round of its loop
Tick ==
  /\ button.polling > 0
  /\ LET newValue == IF button.cooldownRemaining - interval > 0
                     THEN button.cooldownRemaining - interval ELSE 0
     IN /\ button' = [button EXCEPT !.cooldownRemaining = newValue,
                                    !.polling = IF newValue > 0 THEN @ ELSE @ - 1]
        /\ buttonLog' = [event |-> "Tick",
                         calls |-> IF newValue <= 0 /\ button.impl = "enhanced"
                                   THEN <<"onCooldownComplete">> ELSE << >>]

\* no call on the drag coordinator, no DropZone or detector event
NoDragEvent ==
  UNCHANGED <<state, subs, handlers, zones, fired, lastCall, lastLifecycle, gesture, userCalls>>

NextCooldown ==
  \/ \E i \in Impls, c \in Cooldowns, dis \in BOOLEAN :
       CooldownButton(i, c, dis) /\ NoDragEvent /\ NoTabEvent
  \/ \E y \in BOOLEAN : Activated(y) /\ NoDragEvent /\ NoTabEvent
  \/ Resumed /\ NoDragEvent /\ NoTabEvent
  \/ Tick /\ NoDragEvent /\ NoTabEvent

SpecCooldown == Init /\ [][NextCooldown]_vars

\* props.cooldown of a button whose countdown can take more rounds
LongCooldowns == -1 .. 2 * MaxCooldown

\* the same button with a props.onClick that returns without yielding
NextCooldownNoYield ==
  \/ \E i \in Impls, c \in LongCooldowns, dis \in BOOLEAN :
       CooldownButton(i, c, dis) /\ NoDragEvent /\ NoTabEvent
  \/ Activated(FALSE) /\ NoDragEvent /\ NoTabEvent
  \/ Tick /\ NoDragEvent /\ NoTabEvent

SpecCooldownNoYield == Init /\ [][NextCooldownNoYield]_vars

\* the task scheduler resumes a thread suspended in task.wait once its time
\* has passed: a polling task that is waiting is eventually given its round
SpecCooldownFair == SpecCooldown /\ WF_vars(Tick /\ NoDragEvent /\ NoTabEvent)

-----------------------------------------------------------------------------
(* TabGroup (organisms/TabGroup.ts) and the TabButton atom of each tab *)

MaxTabs == 2
TabIds == {"a", "b", "c"}

\* TabSpec.disabled: omitted, a boolean, or a Value<boolean> with its content
DisabledOptions ==
  {[kind |-> "omitted", value |-> FALSE]}
    \cup [kind : {"static", "reactive"}, value : BOOLEAN]

TabSpecs == [id : TabIds, disabled : DisabledOptions]

\* props.tabs: tab lists with unique ids
TabLists ==
  {ts \in UNION {[1 .. n -> TabSpecs] : n \in 0 .. MaxTabs} :
     \A i, j \in 1 .. Len(ts) : ts[i].id = ts[j].id => i = j}

\* the content props.active has when TabGroup is called
ActiveArgs == TabIds \cup {"other"}

\* isDisabled.get() in the TabButton of a tab
isDisabled(tab) == tab.disabled.value

\* the component function is called with its props
TabGroup(tabs, active) ==
  /\ tabGroup.status = "none"
  /\ tabGroup' = [status |-> "built", tabs |-> tabs,
                  active |-> IF Len(tabs) > 0 /\ ~\E i \in 1 .. Len(tabs) : tabs[i].id = active
                             THEN tabs[1].id ELSE active]
  /\ tabLog' = [event |-> "TabGroup", arg |-> active]

\* mutant: the handler does not test isDisabled
TabActivated_IgnoresDisabled(i) ==
  /\ tabGroup.status = "built"
  /\ i \in 1 .. Len(tabGroup.tabs)
  /\ tabGroup' = [tabGroup EXCEPT !.active = tabGroup.tabs[i].id]
  /\ tabLog' = [event |-> "Activated", arg |-> tabGroup.tabs[i].id]

\* the Activated event of the TabButton of tab i
TabActivated(i) ==
  /\ tabGroup.status = "built"
  /\ i \in 1 .. Len(tabGroup.tabs)
  /\ LET tab == tabGroup.tabs[i]
     IN /\ tabGroup' = IF ~isDisabled(tab) THEN [tabGroup EXCEPT !.active = tab.id]
                                           ELSE tabGroup
        /\ tabLog' = [event |-> "Activated", arg |-> tab.id]

\* client code writes the Value<boolean> it passed as disabled of tab i
SetDisabled(i, b) ==
  /\ tabGroup.status = "built"
  /\ i \in 1 .. Len(tabGroup.tabs)
  /\ tabGroup.tabs[i].disabled.kind = "reactive"
  /\ tabGroup' = [tabGroup EXCEPT !.tabs[i].disabled.value = b]
  /\ tabLog' = [event |-> "SetDisabled", arg |-> tabGroup.tabs[i].id]

NextTabs ==
  \/ \E ts \in TabLists, a \in ActiveArgs :
       TabGroup(ts, a) /\ NoDragEvent /\ NoButtonEvent
  \/ \E i \in 1 .. MaxTabs : TabActivated(i) /\ NoDragEvent /\ NoButtonEvent
  \/ \E i \in 1 .. MaxTabs, b \in BOOLEAN : SetDisabled(i, b) /\ NoDragEvent /\ NoButtonEvent

SpecTabs == Init /\ [][NextTabs]_vars

-----------------------------------------------------------------------------
(* Properties *)

\* the listeners a Fire() on chan has to reach: the callers that registered
\* on chan and have not disconnected, and the zones that are still mounted
ExpectedListeners(chan) ==
  {h \in Handlers : handlers[h].registered = chan /\ ~handlers[h].disconnected}
    \cup {z \in Zones : zones[z].status = "live"}

Cleared(s) ==
  s.payload = Undefined /\ s.position = Undefined /\ s.source = Undefined

\* C1 as stated: getState().active is true if and only if the most recent
\* lifecycle call was startDrag or update.
C1_ActiveIffLastStartOrUpdate ==
  state.active <=> lastLifecycle.op \in {"startDrag", "update"}

\* C1 amended: getState().active is true if and only if the most recent
\* lifecycle call was startDrag, or was an update made while the session was
\* active; an update on an inactive session leaves it inactive.
C1_ActiveIffStartedOrUpdatedWhileActive ==
  state.active <=>
    \/ lastLifecycle.op = "startDrag"
    \/ lastLifecycle.op = "update" /\ lastLifecycle.wasActive

C1_Witness ==
  /\ lastLifecycle.op = "update"
  /\ lastLifecycle.wasActive
  /\ state.active

\* C2: endDrag() on an inactive session runs no onEnded and no onChanged
\* listener and leaves the session state (and every zone) as it was.
C2_EndDragInactiveIsNoOp ==
  [][ (lastCall'.op = "endDrag" /\ ~state.active)
        => (state' = state /\ fired' = << >> /\ zones' = zones) ]_vars

C2_Witness ==
  /\ lastCall.op = "endDrag"
  /\ ~lastCall.wasActive
  /\ ExpectedListeners("ended") # {}
  /\ ExpectedListeners("changed") # {}
  /\ fired = << >>

\* C3: update(position) on an inactive session does not activate it, does
\* not store the position and runs no onChanged listener.
C3_UpdateInactiveIsNoOp ==
  [][ (lastCall'.op = "update" /\ ~state.active)
        => (/\ ~state'.active
            /\ state'.position = state.position
            /\ state' = state
            /\ fired' = << >>
            /\ zones' = zones) ]_vars

C3_Witness ==
  /\ lastCall.op = "update"
  /\ ~lastCall.wasActive
  /\ ExpectedListeners("changed") # {}
  /\ ~state.active
  /\ fired = << >>

\* C4: an endDrag() on an active session fires the ended channel, reaching
\* every onEnded listener, before it fires the changed channel, reaching every
\* onChanged listener, and both have run when endDrag() returns.
C4_EndedBeforeChanged ==
  (lastCall.op = "endDrag" /\ lastCall.wasActive) =>
    /\ Len(fired) = 2
    /\ fired[1].chan = "ended"
    /\ fired[1].to = ExpectedListeners("ended")
    /\ fired[2].chan = "changed"
    /\ fired[2].to = ExpectedListeners("changed")

C4_Witness ==
  /\ lastCall.op = "endDrag"
  /\ lastCall.wasActive
  /\ Len(fired) = 2
  /\ fired[1].to \cap EndedHandlers # {}
  /\ fired[2].to \cap ChangedHandlers # {}
  /\ fired[1].to \cap Zones # {}

\* C5: startDrag(payload, position, source?) from the inactive state leaves
\* the session active with that payload and position and with source equal to
\* the argument or, when it is omitted, payload.source; it fires the changed
\* channel once, reaching every onChanged listener, and not the ended channel.
C5_StartDragSetsSession ==
  (lastCall.op = "startDrag" /\ ~lastCall.wasActive) =>
    /\ state.active
    /\ state.payload = lastCall.payload
    /\ state.position = lastCall.position
    /\ state.source = IF lastCall.source # Undefined
                      THEN lastCall.source ELSE lastCall.payload[1].source
    /\ Len(fired) = 1
    /\ fired[1].chan = "changed"
    /\ fired[1].to = ExpectedListeners("changed")
    /\ fired[1].seen = state

C5_Witness ==
  /\ lastCall.op = "startDrag"
  /\ ~lastCall.wasActive
  /\ lastCall.source # Undefined
  /\ lastCall.payload[1].source # Undefined
  /\ lastCall.source # lastCall.payload[1].source
  /\ ExpectedListeners("changed") \cap ChangedHandlers # {}
  /\ ExpectedListeners("ended") \cap EndedHandlers # {}

\* C6: update(position) on an active session replaces the position only:
\* active, payload and source are as before; the changed channel fires once,
\* reaching every onChanged listener, and the ended channel does not fire.
C6_UpdateReplacesPositionOnly ==
  [][ (lastCall'.op = "update" /\ state.active)
        => (/\ state'.active
            /\ state'.payload = state.payload
            /\ state'.source = state.source
            /\ state'.position = lastCall'.position
            /\ Len(fired') = 1
            /\ fired'[1].chan = "changed"
            /\ fired'[1].to = ExpectedListeners("changed")
            /\ fired'[1].seen = state') ]_vars

C6_Witness ==
  /\ lastCall.op = "update"
  /\ lastCall.wasActive
  /\ state.source # Undefined
  /\ state.position = lastCall.position
  /\ ExpectedListeners("changed") \cap ChangedHandlers # {}
  /\ ExpectedListeners("ended") \cap EndedHandlers # {}

\* the session states a reader can observe: getState() and every state a
\* listener was run with
Observed == {getState} \cup {fired[i].seen : i \in 1 .. Len(fired)}

\* C7: in every state returned by getState() or passed to a listener, active
\* is true exactly when payload and position are both set, and after an
\* endDrag() on an active session payload, position and source are cleared.
C7_NoPartialSession ==
  /\ \A s \in Observed :
       /\ s.active <=> (s.payload # Undefined /\ s.position # Undefined)
       /\ s.active \/ Cleared(s)
  /\ (lastCall.op = "endDrag" /\ lastCall.wasActive) =>
       \A s \in Observed : ~s.active /\ Cleared(s)

C7_Witness ==
  /\ lastCall.op = "endDrag"
  /\ lastCall.wasActive
  /\ Len(fired) = 2
  /\ fired[1].to # {}
  /\ fired[2].to # {}

\* C8: once the connection returned by onChanged / onEnded is disconnected,
\* no Fire() runs that handler, and every Fire() still runs the handlers that
\* remain connected.
C8_DisconnectedNotInvoked ==
  \A i \in 1 .. Len(fired) :
    /\ \A h \in Handlers : handlers[h].disconnected => h \notin fired[i].to
    /\ fired[i].to = ExpectedListeners(fired[i].chan)

C8_Witness ==
  \E h \in Handlers, i \in 1 .. Len(fired) :
    /\ handlers[h].disconnected
    /\ fired[i].chan = handlers[h].registered
    /\ fired[i].to # {}

\* the props callbacks zone z invoked during the most recent operation
CallbacksOf(z, log) == UNION {{c \in log[i].cbs : c.zone = z} : i \in 1 .. Len(log)}

CallbackNames(cbs) == {c.cb : c \in cbs}

\* the accepts rule as documented: omitted admits everything, a list admits
\* the payloads whose type it holds, a predicate the payloads it returns true for
Admits(accepts, p) ==
  CASE accepts.kind = "omitted"  -> TRUE
    [] accepts.kind = "list"     -> p.type \in accepts.list
    [] accepts.kind = "function" -> p \in accepts.fn

\* C9: enter/leave is edge-triggered.  For a mounted zone that accepts the
\* session's payload and whose inside flag reflects the position before the
\* update (it ran on the previous broadcast and its rectangle has not changed
\* since), an update from outside to inside the rectangle invokes onEnter
\* exactly once, an update that stays inside invokes nothing, an update from
\* inside to outside invokes onLeave exactly once, and an update that stays
\* outside invokes nothing; after the update the flag reflects the new position.
C9_EdgeTriggered ==
  [][ (lastCall'.op = "update" /\ state.active) =>
        \A z \in Zones :
          (zones[z].status = "live" /\ Admits(zones[z].accepts, state.payload[1])) =>
            LET was == Within(zones[z], state.position[1])
                now == Within(zones[z], state'.position[1])
                cbs == CallbacksOf(z, fired')
            IN /\ (zones[z].inside = was) =>
                    /\ (~was /\ now) => (Cardinality(cbs) = 1 /\ CallbackNames(cbs) = {"onEnter"})
                    /\ (was /\ now) => cbs = {}
                    /\ (was /\ ~now) => (Cardinality(cbs) = 1 /\ CallbackNames(cbs) = {"onLeave"})
                    /\ (~was /\ ~now) => cbs = {}
               /\ zones'[z].inside = now ]_vars

\* an update has just taken an accepted session out of a zone it had entered
C9_Witness ==
  /\ lastCall.op = "update"
  /\ lastCall.wasActive
  /\ \E z \in Zones :
       /\ zones[z].status = "live"
       /\ Admits(zones[z].accepts, state.payload[1])
       /\ ~Within(zones[z], state.position[1])
       /\ CallbackNames(CallbacksOf(z, fired)) = {"onLeave"}

\* the payload of the session a lifecycle step is about: the one it leaves
\* in place, or the one it has just ended
SessionPayload(before, after) == IF after.active THEN after.payload ELSE before.payload

\* C10 as stated: a session whose payload a zone does not accept never
\* triggers that zone's onEnter, onLeave or onDrop.
C10_UnacceptedTriggersNothing ==
  [][ fired' # << >> =>
        \A z \in Zones :
          LET pl == SessionPayload(state, state')
          IN (zones[z].status = "live" /\ pl # Undefined /\ ~Admits(zones[z].accepts, pl[1]))
               => CallbacksOf(z, fired') = {} ]_vars

\* C10 amended: a session whose payload a zone does not accept never triggers
\* that zone's onEnter or onDrop, even when its position is inside the zone,
\* and every callback a zone invokes carries a payload the zone accepts; the
\* only callback such a session triggers is the onLeave, carrying the payload
\* accepted earlier, when its startDrag replaces an active session the zone
\* was inside.  A zone with accepts omitted treats every payload as eligible.
C10_AcceptFiltering ==
  [][ fired' # << >> =>
        \A z \in Zones :
          zones[z].status = "live" =>
            LET pl  == SessionPayload(state, state')
                cbs == CallbacksOf(z, fired')
            IN /\ \A c \in cbs : Admits(zones[z].accepts, c.payload)
               /\ (pl # Undefined /\ ~Admits(zones[z].accepts, pl[1])) =>
                    /\ CallbackNames(cbs) \subseteq {"onLeave"}
                    /\ cbs # {} => (lastCall'.op = "startDrag" /\ state.active /\ zones[z].inside)
                    /\ ~zones'[z].inside
               /\ (zones[z].accepts.kind = "omitted" /\ state'.active) =>
                    zones'[z].inside = Within(zones'[z], state'.position[1]) ]_vars

\* an update has put a session the zone does not accept inside its rectangle
C10_Witness ==
  /\ lastCall.op = "update"
  /\ lastCall.wasActive
  /\ \E z \in Zones :
       /\ zones[z].status = "live"
       /\ z \in fired[1].to
       /\ ~Admits(zones[z].accepts, state.payload[1])
       /\ Within(zones[z], state.position[1])
       /\ CallbacksOf(z, fired) = {}
       /\ ~zones[z].inside

\* a zone that is mounted and whose closure state reflects session s under
\* the zone's present rectangle: it ran on the broadcast that published s and
\* its rectangle has not changed since
InSync(zr, s) ==
  /\ zr.status = "live"
  /\ zr.inside = (Within(zr, s.position[1]) /\ Admits(zr.accepts, s.payload[1]))

\* C11: drop commit.  An endDrag() on a session that was moved inside an
\* eligible zone invokes that zone's onDrop exactly once, with the zone's
\* cached payload; an endDrag() on a session that is outside every zone (or
\* not accepted by it) invokes no onDrop on any zone.
C11_DropCommit ==
  [][ (lastCall'.op = "endDrag" /\ state.active) =>
        /\ \A z \in Zones :
             (InSync(zones[z], state) /\ zones[z].inside) =>
               /\ {c \in CallbacksOf(z, fired') : c.cb = "onDrop"}
                    = {Callback(z, "onDrop", zones[z].lastPayload[1])}
               /\ {c \in fired'[2].cbs : c.zone = z} = {}
               /\ CallbacksOf(z, fired') \subseteq fired'[1].cbs
        /\ (\A z \in Zones : zones[z].status = "live" =>
                               (InSync(zones[z], state) /\ ~zones[z].inside))
             => \A i \in 1 .. Len(fired') : \A c \in fired'[i].cbs : c.cb # "onDrop" ]_vars

\* an endDrag() has just committed a drop on a zone
C11_Witness ==
  /\ lastCall.op = "endDrag"
  /\ lastCall.wasActive
  /\ \E z \in Zones : \E c \in CallbacksOf(z, fired) : c.cb = "onDrop"

\* the rectangle test as documented, on the frame's present bounds
InRect(zr, p) ==
  /\ zr.absPos.X <= p.X /\ p.X <= zr.absPos.X + zr.absSize.X
  /\ zr.absPos.Y <= p.Y /\ p.Y <= zr.absPos.Y + zr.absSize.Y

\* C12: the hit test is inclusive on all four edges and uses the rectangle
\* the frame has when the change broadcast runs: after every startDrag or
\* effective update, a mounted zone that accepts the payload is inside exactly
\* when left <= p.X <= left+width and top <= p.Y <= top+height.
C12_InclusiveHitTest ==
  [][ (lastCall'.op \in {"startDrag", "update"} /\ state'.active) =>
        \A z \in Zones :
          (zones'[z].status = "live" /\ Admits(zones'[z].accepts, state'.payload[1])) =>
            zones'[z].inside = InRect(zones'[z], state'.position[1]) ]_vars

\* a zone is inside with the position on its far (right, bottom) corner
C12_Witness ==
  /\ lastCall.op \in {"startDrag", "update"}
  /\ state.active
  /\ \E z \in Zones :
       /\ zones[z].status = "live"
       /\ zones[z].inside
       /\ zones[z].absSize.X > 0
       /\ state.position[1].X = zones[z].absPos.X + zones[z].absSize.X
       /\ state.position[1].Y = zones[z].absPos.Y + zones[z].absSize.Y

C15_UnmountedZoneSilent ==
  \A z \in Zones :
    zones[z].status = "unmounted" =>
      /\ CallbacksOf(z, fired) = {}
      /\ \A i \in 1 .. Len(fired) : z \notin fired[i].to

\* a zone was unmounted while inside during a drag, and the drag has ended
C15_Witness ==
  /\ lastCall.op = "endDrag"
  /\ lastCall.wasActive
  /\ \E z \in Zones :
       /\ zones[z].status = "unmounted"
       /\ zones[z].inside
       /\ zones[z].lastPayload # Undefined

\* C20: startDrag while a session is active overwrites it: payload, position
\* and source are those of the new call, the ended channel does not fire and
\* the changed channel fires once, reaching every onChanged listener.
C20_StartDragOverwrites ==
  [][ (lastCall'.op = "startDrag" /\ state.active) =>
        /\ state'.active
        /\ state'.payload = lastCall'.payload
        /\ state'.position = lastCall'.position
        /\ state'.source = IF lastCall'.source # Undefined
                           THEN lastCall'.source ELSE lastCall'.payload[1].source
        /\ Len(fired') = 1
        /\ fired'[1].chan = "changed"
        /\ fired'[1].to = ExpectedListeners("changed")
        /\ fired'[1].seen = state' ]_vars

\* a startDrag has just replaced an active session, with an onEnded listener
\* connected that was not run
C20_Witness ==
  /\ lastCall.op = "startDrag"
  /\ lastCall.wasActive
  /\ state.payload = lastCall.payload
  /\ ExpectedListeners("ended") \cap EndedHandlers # {}
  /\ Len(fired) = 1

-----------------------------------------------------------------------------
\* C13: when a DropZone's change handler runs while no session is active and
\* the zone was previously inside, the zone fires onLeave with the last cached
\* payload and clears its cached state (inside flag and cached payload).
\* The handler meets an inactive session with its flag still set only when
\* the end listener did not finish, i.e. when onDrop raised.
C13_InactiveChangeFiresLeave ==
  [][ \A z \in Zones :
        ( /\ zones[z].inside /\ zones[z].lastPayload # Undefined
          /\ Len(fired') = 2
          /\ Callback(z, "raised", zones[z].lastPayload[1]) \in fired'[1].cbs
          /\ fired'[2].chan = "changed" /\ z \in fired'[2].to
          /\ ~fired'[2].seen.active )
        => /\ Callback(z, "onLeave", zones[z].lastPayload[1]) \in fired'[2].cbs
           /\ ~zones'[z].inside
           /\ zones'[z].lastPayload = Undefined ]_vars

-----------------------------------------------------------------------------
\* the props callbacks named cb that the last detector event invoked for d
UserCallsOf(d, cb) ==
  {i \in 1 .. Len(userCalls) : userCalls[i].detector = d /\ userCalls[i].cb = cb}

\* C16: a Draggable with a payload never leaves the session stuck active:
\* whenever a gesture that has begun (DragStart seen) stops, by a DragEnd
\* event or because the wrapper is destroyed without one, onDragEnd has been
\* invoked and the session is inactive.
C16_StoppedGestureEndsSession ==
  [][ \A d \in PayloadDraggables :
        (gesture[d] = "dragging" /\ gesture'[d] # "dragging") =>
          /\ UserCallsOf(d, "onDragEnd")' # {}
          /\ ~state'.active ]_vars

-----------------------------------------------------------------------------
\* the zone callbacks of the Fire() calls that preceded a props callback
CallbacksBefore(c, log) ==
  UNION {log[i].cbs : i \in 1 .. (IF c.firedBefore < Len(log) THEN c.firedBefore ELSE Len(log))}

\* what the claim says of onDragStart and onDragEnd; c is a call of the step
StartAndEndAfterCoordinator(c) ==
  /\ c.cb = "onDragStart" =>
        c.seen = [active |-> TRUE, payload |-> Some(PayloadOf(c.detector)),
                  position |-> c.arg, source |-> Some(TargetOf(c.detector))]
  /\ c.cb = "onDragEnd" =>
        /\ ~c.seen.active
        /\ c.firedBefore = Len(fired')
        /\ \A z \in Zones \cap subs["ended"] :
              (state.active /\ zones[z].inside /\ zones[z].lastPayload # Undefined) =>
                Callback(z, "onDrop", zones[z].lastPayload[1]) \in CallbacksBefore(c, fired')

\* C17 as stated: for a Draggable with a payload each user callback runs
\* after the matching coordinator call: onDragStart(pos) sees the session
\* active with the payload, position pos and source = target; onDrag(pos)
\* sees the session position pos; onDragEnd sees the session inactive, after
\* every zone onDrop.
C17_CallbackSeesPhaseApplied ==
  [][ \A i \in 1 .. Len(userCalls') :
        LET c == userCalls'[i]
        IN /\ StartAndEndAfterCoordinator(c)
           /\ c.cb = "onDrag" => c.seen.position = c.arg ]_vars

\* C17, amended: onDrag(pos) sees position pos, with the payload and source
\* untouched, when the session was active as DragContinue arrived; when it
\* was not (another caller ended it), update is a no-op and onDrag sees the
\* inactive session unchanged.  onDragStart and onDragEnd as stated.
C17_CallbackAfterCoordinatorCall ==
  [][ \A i \in 1 .. Len(userCalls') :
        LET c == userCalls'[i]
        IN /\ StartAndEndAfterCoordinator(c)
           /\ c.cb = "onDrag" =>
                /\ c.firedBefore = Len(fired')
                /\ c.seen = IF state.active THEN [state EXCEPT !.position = c.arg]
                                             ELSE state ]_vars

\* onDragEnd has run after a zone delivered the drop
C17_Witness ==
  /\ UserCallsOf("dragA", "onDragEnd") # {}
  /\ Len(fired) = 2
  /\ userCalls[1].firedBefore = 2
  /\ \E c \in fired[1].cbs : c.cb = "onDrop"

-----------------------------------------------------------------------------
SessionlessDetectors == PlainDraggables \cup DragHandles

\* C18: a Draggable without a payload and a DragHandle never publish a
\* session: an event of theirs leaves the coordinator state, the
\* subscriptions and every DropZone unchanged and fires no broadcast (hence
\* no DropZone callback), while their own callback of that phase still runs.
C18_NoSessionPublished ==
  [][ \A d \in SessionlessDetectors :
        /\ (\E i \in 1 .. Len(userCalls') : userCalls'[i].detector = d) =>
              /\ state' = state
              /\ fired' = << >>
              /\ zones' = zones
              /\ subs' = subs
              /\ \A i \in 1 .. Len(userCalls') : userCalls'[i].seen = state
        /\ (gesture[d] = "idle" /\ gesture'[d] = "dragging") =>
              UserCallsOf(d, IF d \in DragHandles THEN "onStart" ELSE "onDragStart")' # {}
        /\ (gesture[d] = "dragging" /\ gesture'[d] = "idle") =>
              UserCallsOf(d, IF d \in DragHandles THEN "onEnd" ELSE "onDragEnd")' # {} ]_vars

\* a DragHandle and a payload-less Draggable are both mid-gesture while a
\* session published by another Draggable is active over a zone
C18_Witness ==
  /\ state.active
  /\ \E z \in Zones : zones[z].inside
  /\ gesture["handle"] = "dragging"
  /\ UserCallsOf("dragN", "onDrag") # {}

-----------------------------------------------------------------------------
\* whether the last event of the button invoked the props callback cb
ButtonCalled(log, cb) == \E i \in 1 .. Len(log.calls) : log.calls[i] = cb

\* C19: CooldownButton prevents clicks during the cooldown period: onClick
\* is never invoked while cooldownRemaining > 0; with cooldown > 0, when
\* onClick is invoked every earlier invocation has started its countdown and
\* that countdown has reached 0; an activation during the cooldown changes
\* no state and does not restart the countdown.
C19_ClicksPreventedDuringCooldown ==
  [][ /\ ButtonCalled(buttonLog', "onClick") =>
            /\ button.cooldownRemaining <= 0
            /\ button.cooldown > 0 => button.pending = 0
      /\ (buttonLog'.event = "Activated" /\ button.cooldownRemaining > 0) =>
            /\ button' = button
            /\ buttonLog'.calls = << >> ]_vars

-----------------------------------------------------------------------------
\* C21: every handler registered with onEnded is invoked with the session
\* state as it is after clearing: active = false, no payload, no position;
\* the payload a DropZone hands to onDrop is the copy it cached itself.
C21_EndedSeesClearedState ==
  [][ \A i \in 1 .. Len(fired') :
        fired'[i].chan = "ended" =>
          /\ ~fired'[i].seen.active
          /\ fired'[i].seen.payload = Undefined
          /\ fired'[i].seen.position = Undefined
          /\ fired'[i].to = ExpectedListeners("ended")
          /\ \A c \in fired'[i].cbs :
                c.cb = "onDrop" /\ zones[c.zone].lastPayload = Some(c.payload) ]_vars

\* an end broadcast reached a plain handler and a zone that delivered a drop
C21_Witness ==
  /\ Len(fired) = 2
  /\ fired[1].chan = "ended"
  /\ "h2" \in fired[1].to
  /\ \E c \in fired[1].cbs : c.cb = "onDrop"
  /\ lastCall.op = "endDrag"

-----------------------------------------------------------------------------
\* C22: the countdown terminates: once an accepted click has started it
\* (cooldownRemaining > 0), and as long as the polling task keeps being
\* scheduled, cooldownRemaining eventually reaches 0 and the button is
\* clickable again; the round of the loop that reaches 0 is that task's last.
C22_CountdownTerminates ==
  /\ (button.cooldownRemaining > 0)
        ~> (button.cooldownRemaining = 0 /\ ~button.isDisabled /\ buttonLog.event = "Tick")
  /\ [][ (buttonLog'.event = "Tick" /\ button.cooldownRemaining > 0
                                    /\ button'.cooldownRemaining = 0)
            => button'.polling = button.polling - 1 ]_vars

\* a countdown of several rounds has run to its end
C22_Witness ==
  /\ button.cooldown > interval
  /\ button.cooldownRemaining = 0
  /\ button.polling = 0
  /\ buttonLog.event = "Tick"

-----------------------------------------------------------------------------
\* C23: in every reachable state of a CooldownButton cooldownRemaining is
\* never negative and never above props.cooldown; it is set to props.cooldown
\* only by an accepted click and otherwise only decreases.
C23_RemainingWithinRange ==
  [][ button'.impl # "none" =>
        /\ 0 <= button'.cooldownRemaining
        /\ button'.cooldownRemaining <= (IF button'.cooldown > 0 THEN button'.cooldown ELSE 0)
        /\ button'.cooldownRemaining > button.cooldownRemaining =>
              /\ buttonLog'.event \in {"Activated", "Resumed"}
              /\ button'.cooldownRemaining = button'.cooldown ]_vars

-----------------------------------------------------------------------------
TabIdsOf(tabs) == {tabs[i].id : i \in 1 .. Len(tabs)}

\* C24: TabGroup keeps the active tab id valid.  Right after construction
\* with a non-empty tab list active is the given id if that is a tab's id and
\* the first tab's id otherwise; activating an enabled tab button sets active
\* to that tab's id, activating a disabled one leaves it unchanged; so active
\* is a tab's id after every construction and tab-button activation.
C24_ActiveStaysValid ==
  [][ (tabGroup'.status = "built" /\ Len(tabGroup'.tabs) > 0) =>
        /\ tabGroup'.active \in TabIdsOf(tabGroup'.tabs)
        /\ tabLog'.event = "TabGroup" =>
              tabGroup'.active = IF tabLog'.arg \in TabIdsOf(tabGroup'.tabs)
                                 THEN tabLog'.arg ELSE tabGroup'.tabs[1].id
        /\ tabLog'.event = "Activated" =>
              \A i \in 1 .. Len(tabGroup.tabs) :
                tabGroup.tabs[i].id = tabLog'.arg =>
                  tabGroup'.active = IF tabGroup.tabs[i].disabled.value
                                     THEN tabGroup.active ELSE tabLog'.arg ]_vars

\* the button of a disabled tab that is not the active one was activated
C24_Witness ==
  /\ tabGroup.status = "built"
  /\ tabLog.event = "Activated"
  /\ tabLog.arg # tabGroup.active
  /\ \E i \in 1 .. Len(tabGroup.tabs) :
        tabGroup.tabs[i].id = tabLog.arg /\ tabGroup.tabs[i].disabled.kind = "reactive"

-----------------------------------------------------------------------------
\* C25: whenever a zone's onDrop fires during an endDrag(), the payload it
\* receives is the payload the session held immediately before that
\* endDrag(), also after a startDrag issued while a session was active and
\* the pointer inside the zone.
C25_DropCarriesSessionPayload ==
  [][ (lastCall'.op = "endDrag" /\ state.active) =>
        \A i \in 1 .. Len(fired') : \A c \in fired'[i].cbs :
          c.cb = "onDrop" => Some(c.payload) = state.payload ]_vars

-----------------------------------------------------------------------------
\* the payload of the zone's onEnter that no onLeave / onDrop has matched yet,
\* as the zone's closure locals hold it
OpenEnter(zr) == IF zr.inside THEN zr.lastPayload ELSE Undefined

\* one Fire() added to the account r of zone z: an onEnter needs no open
\* onEnter and opens one; an onLeave / onDrop needs an open onEnter with the
\* same payload and closes it
AccountFire(z, entry, r) ==
  LET cs == {c \in entry.cbs : c.zone = z}
  IN IF cs = {} THEN r
     ELSE IF Cardinality(cs) > 1 THEN [ok |-> FALSE, open |-> r.open]
     ELSE LET c == CHOOSE x \in cs : TRUE
          IN IF c.cb = "onEnter"
             THEN [ok |-> r.ok /\ r.open = Undefined, open |-> Some(c.payload)]
             ELSE [ok |-> r.ok /\ r.open = Some(c.payload), open |-> Undefined]

RECURSIVE AccountLog(_, _, _)
AccountLog(z, log, r) ==
  IF log = << >> THEN r ELSE AccountLog(z, Tail(log), AccountFire(z, Head(log), r))

\* C26: for each DropZone that stays mounted the callbacks strictly
\* alternate: onLeave / onDrop fires only against an earlier unmatched
\* onEnter of that zone and carries its payload, and no onEnter fires while
\* one is unmatched.  Inductive form: the flag and cache of the zone say
\* which onEnter is unmatched, before and after every step.
C26_CallbacksAlternate ==
  [][ \A z \in Zones :
        (zones[z].status = "live" /\ zones'[z].status = "live") =>
          LET r == AccountLog(z, fired', [ok |-> TRUE, open |-> OpenEnter(zones[z])])
          IN r.ok /\ r.open = OpenEnter(zones'[z]) ]_vars

\* a startDrag over an active session made the zone leave
C26_Witness ==
  /\ lastCall.op = "startDrag"
  /\ lastCall.wasActive
  /\ Len(fired) = 1
  /\ \E c \in fired[1].cbs : c.cb = "onLeave"

-----------------------------------------------------------------------------
\* C27: endDrag performs no hit test of its own: a zone fires onDrop on
\* endDrag iff its inside flag, as the most recent change broadcast left it,
\* is true, whatever its rectangle is now and wherever the pointer is
\* released.
C27_DropFollowsInsideFlag ==
  [][ (lastCall'.op = "endDrag" /\ state.active) =>
        \A z \in Zones :
          zones[z].status = "live" =>
            /\ ({c \in CallbacksOf(z, fired') : c.cb = "onDrop"} # {})
                  <=> (zones[z].inside /\ zones[z].lastPayload # Undefined)
            /\ \A c \in CallbacksOf(z, fired') : c.cb = "onDrop" /\ c \in fired'[1].cbs ]_vars

\* a zone received the drop although the pointer was released outside its
\* present rectangle
C27_Witness ==
  /\ Len(userCalls) = 1
  /\ userCalls[1].cb = "onDragEnd"
  /\ Len(fired) = 2
  /\ \E c \in fired[1].cbs :
        c.cb = "onDrop" /\ ~InRect(zones[c.zone], userCalls[1].arg[1])

-----------------------------------------------------------------------------
\* C28: the coordinator does not track which wrapper started a session.
\* With two payload-carrying Draggables a and b, while the session started
\* by a is active a DragEnd on b ends it, and every zone that is inside gets
\* onDrop with a's payload; a DragContinue on b moves its position; on an
\* inactive session the DragContinue / DragEnd of any wrapper is a no-op on
\* the coordinator.
C28_SessionHasNoOwner ==
  [][ \A i \in 1 .. Len(userCalls') :
        LET c == userCalls'[i]
        IN /\ \A a \in PayloadDraggables \ {c.detector} :
                (state.active /\ state.payload = Some(PayloadOf(a))) =>
                  /\ c.cb = "onDragEnd" =>
                        /\ ~state'.active
                        /\ \A z \in Zones :
                              (zones[z].status = "live" /\ zones[z].inside) =>
                                {x \in CallbacksOf(z, fired') : x.cb = "onDrop"}
                                  = {Callback(z, "onDrop", PayloadOf(a))}
                  /\ c.cb = "onDrag" => state' = [state EXCEPT !.position = c.arg]
           /\ (~state.active /\ c.cb \in {"onDrag", "onDragEnd"}) =>
                (state' = state /\ fired' = << >> /\ zones' = zones) ]_vars

-----------------------------------------------------------------------------
\* the callbacks named cb that the zones invoked during the broadcasts in log
Invoked(log, cb) == UNION {{c \in log[i].cbs : c.cb = cb} : i \in 1 .. Len(log)}

\* C29: drop delivery is per zone and not exclusive.  After every change
\* broadcast of an active session each mounted zone is inside exactly when
\* its own rectangle holds the position and its own accepts rule admits the
\* payload, whatever the other zone does; every zone that becomes inside in
\* the broadcast fires onEnter, so two overlapping eligible zones both do;
\* and an endDrag() fires onDrop on every zone that is inside: the number of
\* onDrop callbacks equals the number of zones inside.
C29_DeliveryPerZone ==
  [][ /\ (lastCall'.op \in {"startDrag", "update"} /\ state'.active /\ fired' # << >>) =>
            /\ \A z \in Zones :
                  zones[z].status = "live" =>
                    /\ zones'[z].inside
                          = (InRect(zones[z], state'.position[1])
                               /\ Admits(zones[z].accepts, state'.payload[1]))
                    /\ (~zones[z].inside /\ zones'[z].inside) =>
                          Callback(z, "onEnter", state'.payload[1]) \in CallbacksOf(z, fired')
            /\ Cardinality(Invoked(fired', "onEnter"))
                  = Cardinality({z \in Zones : zones[z].status = "live"
                                                /\ ~zones[z].inside /\ zones'[z].inside})
      /\ (lastCall'.op = "endDrag" /\ state.active) =>
            /\ \A z \in Zones :
                  (zones[z].status = "live" /\ zones[z].inside) =>
                    \E c \in CallbacksOf(z, fired') : c.cb = "onDrop"
            /\ Cardinality(Invoked(fired', "onDrop"))
                  = Cardinality({z \in Zones : zones[z].status = "live" /\ zones[z].inside}) ]_vars

\* one endDrag() delivered a drop to two zones with different rectangles
C29_Witness ==
  /\ lastCall.op = "endDrag"
  /\ lastCall.wasActive
  /\ Len(fired) = 2
  /\ \A z \in Zones : \E c \in fired[1].cbs : c.cb = "onDrop" /\ c.zone = z
  /\ zones["z1"].absPos # zones["z2"].absPos

-----------------------------------------------------------------------------
====
